---------------------------- MODULE Spec2Model ----------------------------
(***************************************************************************)
(* Rice Leaf Doctor: the on-device inference pipeline of                   *)
(* RiceLeafCodes/app/(tabs)/index.tsx (component App).                     *)
(*                                                                         *)
(* The React component is modelled as a state machine: its useState cells  *)
(* (model, selectedImage, prediction, loading), the AsyncStorage key       *)
(* 'leaf_history', and one record per running async function               *)
(* (analyzeImage, addToHistory) that holds the function's locals and the   *)
(* await it is suspended at.  Code between two awaits runs to completion   *)
(* on the single JavaScript thread and is one action.                      *)
(*                                                                         *)
(* An earlier version of the component (no history, no alert at the guard, *)
(* the same pipeline from resize to interpretation) is kept in the         *)
(* repository; the model follows index.tsx.                                *)
(*                                                                         *)
(* AsyncStorage is taken to be reliable: getItem and setItem resolve.      *)
(*                                                                         *)
(* Numbers.  A JavaScript number is a record [t, v]: Num(v) is a finite    *)
(* value, NaN and NegInf are the two non-finite values the code can        *)
(* produce (a read of undefined stored in a Float32Array, Math.max of an   *)
(* empty list).  A class score Num(v) stands for the float v / 10000, so   *)
(* that (maxScore * 100).toFixed(2) is exactly v / 100 with two decimals.  *)
(***************************************************************************)
EXTENDS Integers, Sequences, FiniteSets, TLC

VARIABLES
    loadState,      \* the loadTensorflowModel promise: idle, loading, ready, failed
    model,          \* useState model
    selectedImage,  \* useState selectedImage
    prediction,     \* useState prediction
    loading,        \* useState loading
    reqs,           \* the analyzeImage invocations, in call order
    storage,        \* AsyncStorage value under 'leaf_history' (the parsed list)
    hcalls,         \* the addToHistory invocations, in call order
    now,            \* Date.now() of the latest addToHistory call, in ticks
    probe           \* argument and result of a pure step applied on its own

vars == <<loadState, model, selectedImage, prediction, loading, reqs,
          storage, hcalls, now, probe>>

-----------------------------------------------------------------------------
(* Bounds of the model *)

\* Side of the resized image, standing in for the 224 of the resize request.
ImgSide == 2
\* analyzeImage invocations per run.
MaxRequests == 2
\* addToHistory invocations of the sequential history runs.
MaxCalls == 2
\* Largest finite score drawn for a score vector (in 1/10000).
MaxScore == 1
\* Largest seed of the byte patterns drawn for a pixel buffer.
MaxSeed == 15

(* Program constants *)

\* bytes per decoded pixel: the loop stride i += 4
Stride == 4
\* floats per pixel of the tensor: Float32Array(224 * 224 * 3)
Channels == 3
\* updatedHistory.slice(0, 20)
HistoryCap == 20

NULL == "null"
UNDEFINED == "undefined"

LABELS == << "Bacterial Leaf Blight",
             "Brown Spot",
             "Healthy Rice Leaf",
             "Leaf Blast",
             "Leaf Scald",
             "NOT_A_RICE_LEAF",
             "Sheath Blight" >>

\* DISEASE_ADVICE[label] || "Consult an expert."  (texts without their icon)
DISEASE_ADVICE(label) ==
    CASE label = "Bacterial Leaf Blight" ->
             "Treatment: Use copper-based sprays. Avoid excessive Nitrogen."
      [] label = "Brown Spot" ->
             "Treatment: Improve soil fertility (Potassium/Calcium). Treat seeds."
      [] label = "Leaf Blast" ->
             "Treatment: Apply Tricyclazole. Maintain water level."
      [] label = "Leaf Scald" ->
             "Treatment: Use clean seeds. Avoid high Nitrogen."
      [] label = "Sheath Blight" ->
             "Treatment: Apply Azoxystrobin. Reduce plant density."
      [] label = "Healthy Rice Leaf" ->
             "Good News: Your crop looks healthy!"
      [] label = "NOT_A_RICE_LEAF" ->
             "Unknown: Please try a clearer photo."
      [] OTHER -> "Consult an expert."

-----------------------------------------------------------------------------
(* JavaScript numbers *)

Num(v) == [t |-> "num", v |-> v]
NaN == [t |-> "NaN", v |-> 0]
NegInf == [t |-> "-Infinity", v |-> 0]

\* a === b on numbers: NaN equals nothing, itself included
StrictEq(a, b) ==
    /\ a.t # "NaN"
    /\ b.t # "NaN"
    /\ a.t = b.t
    /\ a.v = b.v

\* Math.max(...xs): -Infinity on no arguments, NaN if any argument is NaN
RECURSIVE MathMaxFrom(_, _, _)
MathMaxFrom(xs, k, acc) ==
    IF k > Len(xs) THEN acc
    ELSE IF acc.t = "NaN" \/ xs[k].t = "NaN" THEN MathMaxFrom(xs, k + 1, NaN)
    ELSE IF acc.t = "-Infinity" THEN MathMaxFrom(xs, k + 1, xs[k])
    ELSE IF xs[k].t = "-Infinity" THEN MathMaxFrom(xs, k + 1, acc)
    ELSE MathMaxFrom(xs, k + 1, IF xs[k].v > acc.v THEN xs[k] ELSE acc)

MathMax(xs) == MathMaxFrom(xs, 1, NegInf)

\* xs.indexOf(x): the first 0-based index holding a value === x, else -1
RECURSIVE IndexOfFrom(_, _, _)
IndexOfFrom(xs, x, k) ==
    IF k > Len(xs) THEN -1
    ELSE IF StrictEq(xs[k], x) THEN k - 1
    ELSE IndexOfFrom(xs, x, k + 1)

IndexOf(xs, x) == IndexOfFrom(xs, x, 1)

\* LABELS[i] for a 0-based i: undefined outside the list
LabelAt(i) == IF i >= 0 /\ i < Len(LABELS) THEN LABELS[i + 1] ELSE UNDEFINED

DIGITS == << "0", "1", "2", "3", "4", "5", "6", "7", "8", "9" >>

\* decimal digits of a natural number
RECURSIVE DigitsOf(_)
DigitsOf(n) ==
    IF n < 10 THEN << DIGITS[n + 1] >>
    ELSE Append(DigitsOf(n \div 10), DIGITS[(n % 10) + 1])

\* (maxScore * 100).toFixed(2) + '%', as the characters of the string
Confidence(maxScore) ==
    CASE maxScore.t = "NaN" -> << "N", "a", "N", "%" >>
      [] maxScore.t = "-Infinity" ->
             << "-", "I", "n", "f", "i", "n", "i", "t", "y", "%" >>
      [] OTHER ->
             LET a == IF maxScore.v < 0 THEN 0 - maxScore.v ELSE maxScore.v
                 sign == IF maxScore.v < 0 THEN << "-" >> ELSE << >>
             IN  sign \o DigitsOf(a \div 100) \o << "." >>
                      \o << DIGITS[((a % 100) \div 10) + 1], DIGITS[(a % 10) + 1] >>
                      \o << "%" >>

-----------------------------------------------------------------------------
(* Step 3 of analyzeImage: rawData.data -> float32Data *)

TensorLen == ImgSide * ImgSide * Channels
BufferLen == ImgSide * ImgSide * Stride

\* rawData.data[i] for a 0-based i, stored into a Float32Array:
\* a read past the end is undefined and is stored as NaN
ReadByte(data, i) == IF i < Len(data) THEN Num(data[i + 1]) ELSE NaN

\* float32Data[p] = x for a 0-based p: a typed array ignores a store past its end
StoreFloat(out, p, x) == IF p < Len(out) THEN [out EXCEPT ![p + 1] = x] ELSE out

\* the loop with the alpha byte copied as a fourth value of each pixel
RECURSIVE EncodeLoopWithAlpha(_, _, _, _)
EncodeLoopWithAlpha(data, i, p, out) ==
    IF i >= Len(data) THEN out
    ELSE EncodeLoopWithAlpha(data, i + Stride, p + Stride,
             StoreFloat(StoreFloat(StoreFloat(StoreFloat(out,
                 p, ReadByte(data, i)),
                 p + 1, ReadByte(data, i + 1)),
                 p + 2, ReadByte(data, i + 2)),
                 p + 3, ReadByte(data, i + 3)))

RECURSIVE EncodeLoop(_, _, _, _)
EncodeLoop(data, i, p, out) ==
    IF i >= Len(data) THEN out
    ELSE EncodeLoop(data, i + Stride, p + Channels,
             StoreFloat(StoreFloat(StoreFloat(out,
                 p, ReadByte(data, i)),
                 p + 1, ReadByte(data, i + 1)),
                 p + 2, ReadByte(data, i + 2)))

\* new Float32Array(224 * 224 * 3) is zero-filled; the loop then fills it
Float32Data(data) == EncodeLoop(data, 0, 0, [k \in 1..TensorLen |-> Num(0)])

-----------------------------------------------------------------------------
(* Result interpretation of analyzeImage *)

MaxIndex(probArray) == IndexOf(probArray, MathMax(probArray))

ResultData(probArray) ==
    [label      |-> LabelAt(MaxIndex(probArray)),
     confidence |-> Confidence(MathMax(probArray))]


-----------------------------------------------------------------------------
(* What the collaborators can hand back *)

\* URIs the image picker and the camera return
Images == { "file:///leaf-a.jpg", "file:///leaf-b.jpg" }

\* ImagePicker results: cancelled, or one asset
PickerResults ==
    { [canceled |-> TRUE, uri |-> NULL] }
        \cup { [canceled |-> FALSE, uri |-> u] : u \in Images }

\* rawData.data of a decoded w x h JPEG: w * h * 4 bytes, R, G, B, A per pixel
Pixels(w, h, seed) ==
    [k \in 1..(w * h * Stride) |-> (seed + 37 * k) % 256]

\* jpeg.decode results of the pipeline: the requested size, and the sizes
\* around it that a resize which did not honour the request would produce
AppBuffers ==
    { Pixels(ImgSide, ImgSide, 1),
      Pixels(ImgSide, ImgSide - 1, 1),
      Pixels(ImgSide, ImgSide + 1, 1) }

ScoreValues == { Num(v) : v \in 0..MaxScore } \cup { NaN }

\* outputs[0] of model.run: a Float32Array of whatever length the model has
ScoreVectors ==
    UNION { [1..n -> ScoreValues] : n \in 0..(Len(LABELS) + 1) }

\* the score vectors drawn in the application runs
AppScores ==
    { << >>,
      [k \in 1..(Len(LABELS) - 2) |-> Num(IF k = 2 THEN MaxScore ELSE 0)],
      [k \in 1..Len(LABELS) |-> Num(IF k = 3 THEN MaxScore ELSE 0)] }

-----------------------------------------------------------------------------
(* State of the component *)

\* useState<any>(null) for prediction
NullPrediction == [label |-> NULL, confidence |-> << >>]

\* the locals of one analyzeImage invocation and the await it is suspended at
NewRequest(image) ==
    [pc      |-> "resize",
     image   |-> image,      \* selectedImage as captured by the closure
     data    |-> << >>,      \* rawData.data
     tensor  |-> << >>,      \* float32Data
     scores  |-> << >>,      \* outputs[0]
     outcome |-> "pending",  \* pending, rejected, error, ok
     alerts  |-> << >>]      \* Alert.alert calls made by this invocation

\* no pure step is being applied on its own
NoProbe == [fn |-> "none", arg |-> << >>, done |-> FALSE, res |-> << >>]

Init ==
    /\ loadState = "idle"
    /\ model = NULL
    /\ selectedImage = NULL
    /\ prediction = NullPrediction
    /\ loading = FALSE
    /\ reqs = << >>
    /\ storage = << >>
    /\ hcalls = << >>
    /\ now = 0
    /\ probe = NoProbe

-----------------------------------------------------------------------------
(* Model loading: the useEffect on assets *)

\* assets resolved: loadTensorflowModel({ url }) is started
LoadStart ==
    /\ loadState = "idle"
    /\ loadState' = "loading"
    /\ UNCHANGED <<model, selectedImage, prediction, loading, reqs, storage,
                   hcalls, now, probe>>

\* .then(loadedModel => setModel(loadedModel))
LoadResolve ==
    /\ loadState = "loading"
    /\ loadState' = "ready"
    /\ model' = "handle"
    /\ UNCHANGED <<selectedImage, prediction, loading, reqs, storage, hcalls,
                   now, probe>>

\* .catch(err => console.error(...)): model stays null
LoadReject ==
    /\ loadState = "loading"
    /\ loadState' = "failed"
    /\ UNCHANGED <<model, selectedImage, prediction, loading, reqs, storage,
                   hcalls, now, probe>>

-----------------------------------------------------------------------------
(* Image selection *)

\* if (!model) return <loading view>: the buttons exist once the model is set
ScreenRendered == model # NULL

handleImageResult(result) ==
    IF ~result.canceled
    THEN /\ selectedImage' = result.uri
         /\ prediction' = NullPrediction
    ELSE UNCHANGED <<selectedImage, prediction>>

pickImage ==
    /\ ScreenRendered
    /\ \E result \in PickerResults : handleImageResult(result)
    /\ UNCHANGED <<loadState, model, loading, reqs, storage, hcalls, now, probe>>

takePhoto ==
    /\ ScreenRendered
    /\ \E granted \in BOOLEAN :
          IF ~granted
          THEN UNCHANGED <<selectedImage, prediction>>  \* alert, return
          ELSE \E result \in PickerResults : handleImageResult(result)
    /\ UNCHANGED <<loadState, model, loading, reqs, storage, hcalls, now, probe>>

-----------------------------------------------------------------------------
(* analyzeImage *)

\* if (!model || !selectedImage) { Alert.alert("Error", "Model not ready yet."); return; }
Rejected(image) ==
    [NewRequest(image) EXCEPT !.pc = "done", !.outcome = "rejected",
                              !.alerts = << "Model not ready yet." >>]

\* the function without its guard on model and selectedImage
analyzeImageUnguarded ==
    /\ Len(reqs) < MaxRequests
    /\ loading' = TRUE
    /\ reqs' = Append(reqs, NewRequest(selectedImage))
    /\ UNCHANGED <<loadState, model, selectedImage, prediction, storage,
                   hcalls, now, probe>>

\* the function up to its first await
analyzeImage ==
    /\ Len(reqs) < MaxRequests
    /\ IF model = NULL \/ selectedImage = NULL
       THEN /\ reqs' = Append(reqs, Rejected(selectedImage))
            /\ UNCHANGED loading
       ELSE /\ loading' = TRUE
            /\ reqs' = Append(reqs, NewRequest(selectedImage))
    /\ UNCHANGED <<loadState, model, selectedImage, prediction, storage,
                   hcalls, now, probe>>

\* the Diagnose button: rendered with the screen and the image card,
\* disabled={loading}.  setLoading(true) runs inside the press handler, so
\* React has rendered the disabled button before the next press is handled.
\* the button without disabled={loading}
DiagnoseNeverDisabled ==
    /\ model # NULL
    /\ selectedImage # NULL

DiagnoseEnabled ==
    /\ ScreenRendered
    /\ selectedImage # NULL
    /\ ~loading

PressDiagnose ==
    /\ DiagnoseEnabled
    /\ analyzeImage

\* the catch block without the finally block
CatchOnly(i) ==
    /\ reqs' = [reqs EXCEPT ![i].pc = "done", ![i].outcome = "error",
                            ![i].data = << >>, ![i].tensor = << >>,
                            ![i].alerts = Append(@, "Could not analyze image.")]
    /\ UNCHANGED <<loadState, model, selectedImage, prediction, loading,
                   storage, hcalls, now, probe>>

\* catch (error) { console.error; Alert.alert } finally { setLoading(false) }
\* (the function returns: its locals rawData and float32Data are gone)
CatchFinally(i) ==
    /\ reqs' = [reqs EXCEPT ![i].pc = "done", ![i].outcome = "error",
                            ![i].data = << >>, ![i].tensor = << >>,
                            ![i].alerts = Append(@, "Could not analyze image.")]
    /\ loading' = FALSE
    /\ UNCHANGED <<loadState, model, selectedImage, prediction, storage,
                   hcalls, now, probe>>

\* await ImageManipulator.manipulateAsync(...) resolves; readAsStringAsync starts
ResizeResolve(i) ==
    /\ reqs[i].pc = "resize"
    /\ reqs' = [reqs EXCEPT ![i].pc = "read"]
    /\ UNCHANGED <<loadState, model, selectedImage, prediction, loading,
                   storage, hcalls, now, probe>>

ResizeReject(i) ==
    /\ reqs[i].pc = "resize"
    /\ CatchFinally(i)

\* await FileSystem.readAsStringAsync(...) resolves; Buffer.from and jpeg.decode
\* return rawData; the Float32 conversion runs; model.run is called
ReadResolve(i, data) ==
    /\ reqs[i].pc = "read"
    /\ reqs' = [reqs EXCEPT ![i].pc = "run", ![i].data = data,
                            ![i].tensor = Float32Data(data)]
    /\ UNCHANGED <<loadState, model, selectedImage, prediction, loading,
                   storage, hcalls, now, probe>>

\* readAsStringAsync rejects
ReadReject(i) ==
    /\ reqs[i].pc = "read"
    /\ CatchFinally(i)

\* readAsStringAsync resolves and Buffer.from or jpeg.decode throws
DecodeThrow(i) ==
    /\ reqs[i].pc = "read"
    /\ CatchFinally(i)

\* addToHistory up to its first await: newEntry is built, getItem is started.
\* t is Date.now(): two calls are a whole inference apart, so each call reads
\* a later tick than the one before.
addToHistory(predictionData, imageUri, t) ==
    [pc       |-> "getItem",
     newEntry |-> [id         |-> t,          \* Date.now().toString()
                   label      |-> predictionData.label,
                   confidence |-> predictionData.confidence,
                   imageUri   |-> imageUri,
                   date       |-> t,          \* new Date().toLocaleString()
                   advice     |-> DISEASE_ADVICE(predictionData.label)],
     pending  |-> << >>]                      \* the list handed to setItem

\* await model.run([float32Data]) resolves: interpretation, setPrediction,
\* addToHistory (not awaited), finally setLoading(false)
RunResolve(i, scores) ==
    /\ reqs[i].pc = "run"
    /\ now' = now + 1
    /\ hcalls' = Append(hcalls,
           addToHistory(ResultData(scores), reqs[i].image, now + 1))
    /\ prediction' = ResultData(scores)
    /\ reqs' = [reqs EXCEPT ![i].pc = "done", ![i].outcome = "ok",
                            ![i].data = << >>, ![i].tensor = << >>,
                            ![i].scores = scores]
    /\ loading' = FALSE
    /\ UNCHANGED <<loadState, model, selectedImage, storage, probe>>

RunReject(i) ==
    /\ reqs[i].pc = "run"
    /\ CatchFinally(i)

-----------------------------------------------------------------------------
(* addToHistory after its first await *)

\* xs.slice(0, n)
Slice(xs, n) == SubSeq(xs, 1, IF Len(xs) < n THEN Len(xs) ELSE n)

\* [...historyArray, newEntry].slice(0, 20)
UpdatedHistoryAppended(newEntry, historyArray) ==
    Slice(historyArray \o << newEntry >>, HistoryCap)

\* [newEntry, ...historyArray].slice(0, 20)
UpdatedHistory(newEntry, historyArray) ==
    Slice(<< newEntry >> \o historyArray, HistoryCap)

\* await AsyncStorage.getItem('leaf_history') resolves with the stored list
\* (no key: []); setItem is started with the capped list
GetItemResolve(j) ==
    /\ hcalls[j].pc = "getItem"
    /\ hcalls' = [hcalls EXCEPT ![j].pc = "setItem",
                     ![j].pending = UpdatedHistory(hcalls[j].newEntry, storage)]
    /\ UNCHANGED <<loadState, model, selectedImage, prediction, loading, reqs,
                   storage, now, probe>>

\* await AsyncStorage.setItem('leaf_history', ...) resolves: the list is stored
SetItemResolve(j) ==
    /\ hcalls[j].pc = "setItem"
    /\ storage' = hcalls[j].pending
    /\ hcalls' = [hcalls EXCEPT ![j].pc = "done"]
    /\ UNCHANGED <<loadState, model, selectedImage, prediction, loading, reqs,
                   now, probe>>

-----------------------------------------------------------------------------
(* The application driven through its screen *)

Next ==
    \/ LoadStart
    \/ LoadResolve
    \/ LoadReject
    \/ pickImage
    \/ takePhoto
    \/ PressDiagnose
    \/ \E i \in 1..Len(reqs) : ResizeResolve(i)
    \/ \E i \in 1..Len(reqs) : ResizeReject(i)
    \/ \E i \in 1..Len(reqs) : \E data \in AppBuffers : ReadResolve(i, data)
    \/ \E i \in 1..Len(reqs) : ReadReject(i)
    \/ \E i \in 1..Len(reqs) : DecodeThrow(i)
    \/ \E i \in 1..Len(reqs) : \E scores \in AppScores : RunResolve(i, scores)
    \/ \E i \in 1..Len(reqs) : RunReject(i)
    \/ \E j \in 1..Len(hcalls) : GetItemResolve(j)
    \/ \E j \in 1..Len(hcalls) : SetItemResolve(j)

Spec == Init /\ [][Next]_vars

-----------------------------------------------------------------------------
(* analyzeImage called as a function, whatever the screen shows *)

InvokeAnalyzeImage == analyzeImage

NextCall ==
    \/ Next
    \/ InvokeAnalyzeImage

SpecCall == Init /\ [][NextCall]_vars

-----------------------------------------------------------------------------
(* The result interpretation applied to every score vector *)

Interpretation(probArray) ==
    [maxIndex   |-> MaxIndex(probArray),
     resultData |-> ResultData(probArray)]

InitInterpret ==
    /\ loadState = "idle"
    /\ model = NULL
    /\ selectedImage = NULL
    /\ prediction = NullPrediction
    /\ loading = FALSE
    /\ reqs = << >>
    /\ storage = << >>
    /\ hcalls = << >>
    /\ now = 0
    /\ probe \in { [fn |-> "interpret", arg |-> a, done |-> FALSE, res |-> << >>] :
                     a \in ScoreVectors }

ApplyInterpret ==
    /\ probe.fn = "interpret"
    /\ ~probe.done
    /\ probe' = [probe EXCEPT !.done = TRUE, !.res = Interpretation(probe.arg)]
    /\ UNCHANGED <<loadState, model, selectedImage, prediction, loading, reqs,
                   storage, hcalls, now>>

SpecInterpret == InitInterpret /\ [][ApplyInterpret]_vars

-----------------------------------------------------------------------------
(* The Float32 conversion applied to decoded images of the sizes around 224 *)

DecodedBuffers ==
    { Pixels(w, h, seed) : w \in 1..(ImgSide + 1), h \in 1..(ImgSide + 1),
                           seed \in 0..MaxSeed }

InitEncode ==
    /\ loadState = "idle"
    /\ model = NULL
    /\ selectedImage = NULL
    /\ prediction = NullPrediction
    /\ loading = FALSE
    /\ reqs = << >>
    /\ storage = << >>
    /\ hcalls = << >>
    /\ now = 0
    /\ probe \in { [fn |-> "encode", arg |-> d, done |-> FALSE, res |-> << >>] :
                     d \in DecodedBuffers }

ApplyEncode ==
    /\ probe.fn = "encode"
    /\ ~probe.done
    /\ probe' = [probe EXCEPT !.done = TRUE, !.res = Float32Data(probe.arg)]
    /\ UNCHANGED <<loadState, model, selectedImage, prediction, loading, reqs,
                   storage, hcalls, now>>

SpecEncode == InitEncode /\ [][ApplyEncode]_vars

-----------------------------------------------------------------------------
(* addToHistory called and awaited, one call after the other, on a store    *)
(* that earlier sessions have filled                                        *)

\* the n-th latest entry of earlier sessions (ids before this session's ticks)
StoredEntry(n) ==
    [id         |-> 0 - n,
     label      |-> LABELS[(n % Len(LABELS)) + 1],
     confidence |-> Confidence(Num(n)),
     imageUri   |-> "file:///earlier.jpg",
     date       |-> 0 - n,
     advice     |-> DISEASE_ADVICE(LABELS[(n % Len(LABELS)) + 1])]

StoredHistory(k) == [n \in 1..k |-> StoredEntry(n)]

InitHistory ==
    /\ loadState = "ready"
    /\ model = "handle"
    /\ selectedImage = NULL
    /\ prediction = NullPrediction
    /\ loading = FALSE
    /\ reqs = << >>
    /\ storage \in { StoredHistory(k) : k \in 0..HistoryCap }
    /\ hcalls = << >>
    /\ now = 0
    /\ probe = NoProbe

AwaitedAddToHistory ==
    /\ Len(hcalls) < MaxCalls
    /\ \A j \in 1..Len(hcalls) : hcalls[j].pc = "done"
    /\ \E scores \in AppScores : \E imageUri \in Images :
          hcalls' = Append(hcalls,
              addToHistory(ResultData(scores), imageUri, now + 1))
    /\ now' = now + 1
    /\ UNCHANGED <<loadState, model, selectedImage, prediction, loading, reqs,
                   storage, probe>>

NextHistory ==
    \/ AwaitedAddToHistory
    \/ \E j \in 1..Len(hcalls) : GetItemResolve(j)
    \/ \E j \in 1..Len(hcalls) : SetItemResolve(j)

SpecHistory == InitHistory /\ [][NextHistory]_vars

-----------------------------------------------------------------------------
(* Properties *)

\* C1 (SpecCall).  Model loading gates inference: a request is at model.run
\* only when loadTensorflowModel has resolved and the handle is stored, a
\* rejected request never leaves its rejected state, and an analyzeImage call
\* made while the model is not loaded (loading, or load failed) is rejected
\* with no resize, decode or inference started and with prediction, loading
\* and the history unchanged.
C1_RunGated ==
    \A i \in 1..Len(reqs) :
        /\ reqs[i].pc \in {"read", "run"} \/ reqs[i].outcome \in {"ok", "error"}
              => loadState = "ready" /\ model = "handle"
        /\ reqs[i].outcome = "rejected"
              => /\ reqs[i].pc = "done"
                 /\ reqs[i].data = << >>
                 /\ reqs[i].tensor = << >>
                 /\ reqs[i].scores = << >>

C1_RejectStep ==
    (Len(reqs') = Len(reqs) + 1 /\ loadState # "ready")
        => /\ reqs'[Len(reqs')].outcome = "rejected"
           /\ reqs'[Len(reqs')].pc = "done"
           /\ UNCHANGED <<prediction, loading, storage, hcalls>>

C1_LoadGatesInference == [](C1_RunGated) /\ [][C1_RejectStep]_vars

\* C1 witness: a call made while the model was loading has been rejected.
C1_Witness ==
    /\ loadState = "loading"
    /\ \E i \in 1..Len(reqs) : reqs[i].outcome = "rejected"
    /\ ~loading
    /\ prediction = NullPrediction

\* C2 (Spec), the claim as stated: a request whose score vector has a length
\* other than the number of labels ends in the error path, having produced
\* no label and set no prediction.
C2_WrongLengthFails ==
    \A i \in 1..Len(reqs) :
        (reqs[i].pc = "done" /\ reqs[i].outcome = "ok")
            => Len(reqs[i].scores) = Len(LABELS)

\* C3 (Spec), the claim as stated: a request whose decoded pixel buffer is
\* not exactly side * side * 4 bytes long never has a tensor at model.run.
C3_WrongBufferFails ==
    \A i \in 1..Len(reqs) :
        reqs[i].pc = "run" => Len(reqs[i].data) = BufferLen

\* a > b on numbers: false as soon as one of them is NaN
Greater(a, b) ==
    /\ a.t # "NaN"
    /\ b.t # "NaN"
    /\ \/ a.t = "num" /\ b.t = "-Infinity"
       \/ a.t = "num" /\ b.t = "num" /\ a.v > b.v

\* m (0-based) is an index of xs that no score exceeds and that no earlier
\* index holds the score of, and label is LABELS there.  Every vector of
\* length 1..7 has such an index, with NaN scores too (index 0 when all
\* scores are NaN).
IsFirstArgmax(xs, m, label) ==
    /\ m \in 0..(Len(xs) - 1)
    /\ m < Len(LABELS)
    /\ \A k \in 1..Len(xs) : ~Greater(xs[k], xs[m + 1])
    /\ \A k \in 1..m : ~StrictEq(xs[k], xs[m + 1])
    /\ label = LABELS[m + 1]

\* C4 (SpecInterpret), the claim as stated: for every score vector of length
\* 7 the interpretation selects the lowest index of the maximum score and the
\* label is LABELS at that index.
C4_ArgmaxEveryVector ==
    (probe.fn = "interpret" /\ probe.done /\ Len(probe.arg) = Len(LABELS))
        => IsFirstArgmax(probe.arg, probe.res.maxIndex,
                         probe.res.resultData.label)

\* C5 (Spec).  A failing step of a request (resize, file read, decode,
\* model.run) ends the request in one step that raises exactly one failure
\* alert, resets loading to false and leaves prediction and the history
\* alone; and prediction is set, and a history call started, only by a
\* request that succeeds.
C5_FailStep ==
    /\ \A i \in 1..Len(reqs) :
          (reqs[i].pc # "done" /\ reqs'[i].pc = "done"
              /\ reqs'[i].outcome = "error")
              => /\ reqs'[i].alerts = << "Could not analyze image." >>
                 /\ reqs[i].alerts = << >>
                 /\ loading' = FALSE
                 /\ UNCHANGED <<prediction, hcalls, storage>>
    /\ ((prediction' # prediction /\ prediction' # NullPrediction)
           \/ Len(hcalls') > Len(hcalls))
          => \E i \in 1..Len(reqs) :
                reqs[i].pc = "run" /\ reqs'[i].outcome = "ok"

C5_FailureIsContained == [][C5_FailStep]_vars

\* C5 witness: a request has failed; one alert, no prediction, no history
\* call, loading false.
C5_Witness ==
    /\ \E i \in 1..Len(reqs) :
          /\ reqs[i].outcome = "error"
          /\ reqs[i].alerts = << "Could not analyze image." >>
    /\ ~loading
    /\ prediction = NullPrediction
    /\ hcalls = << >>

\* C6 (Spec).  At most one request is at model.run at any time.
C6_OneInferenceInFlight ==
    Cardinality({ i \in 1..Len(reqs) : reqs[i].pc = "run" }) <= 1

\* C6 witness: a second request is at model.run after the first has ended.
C6_Witness ==
    /\ Len(reqs) >= 2
    /\ reqs[1].pc = "done"
    /\ reqs[1].outcome = "ok"
    /\ reqs[2].pc = "run"

\* C7 (SpecHistory).  With the calls awaited one after the other, a call's
\* setItem leaves at most 20 entries, its own entry first, the entries stored
\* before following in their order, and only the last ones cut off.
C7_SetItemStep ==
    \A j \in 1..Len(hcalls) :
        (hcalls[j].pc = "setItem" /\ hcalls'[j].pc = "done")
            => /\ Len(storage') <= HistoryCap
               /\ Len(storage') =
                     (IF Len(storage) < HistoryCap THEN Len(storage) + 1
                      ELSE HistoryCap)
               /\ storage'[1] = hcalls[j].newEntry
               /\ \A k \in 2..Len(storage') : storage'[k] = storage[k - 1]

C7_HistoryMostRecentFirst ==
    [](Len(storage) <= HistoryCap) /\ [][C7_SetItemStep]_vars

\* C7 witness: the second call found the list full (the first call had
\* stored 20 entries); its entry is first, the first call's entry second,
\* and the entry that was last is gone.
C7_Witness ==
    /\ Len(hcalls) >= 2
    /\ hcalls[2].pc = "done"
    /\ Len(hcalls[1].pending) = HistoryCap
    /\ Len(storage) = HistoryCap
    /\ storage[1] = hcalls[2].newEntry
    /\ storage[2] = hcalls[1].newEntry
    /\ storage[HistoryCap] = hcalls[1].pending[HistoryCap - 1]
    /\ \A k \in 1..Len(storage) : storage[k] # hcalls[1].pending[HistoryCap]

\* C8 (SpecEncode).  For a decoded buffer of exactly side * side * 4 bytes
\* the tensor has side * side * 3 elements and element 3k + c is byte
\* 4k + c of the buffer, unchanged, for every pixel k and channel c in 0..2.
C8_TensorIsRGB ==
    (probe.fn = "encode" /\ probe.done /\ Len(probe.arg) = BufferLen)
        => /\ Len(probe.res) = TensorLen
           /\ \A k \in 0..(ImgSide * ImgSide - 1) : \A c \in 0..(Channels - 1) :
                 probe.res[Channels * k + c + 1]
                     = Num(probe.arg[Stride * k + c + 1])

\* C8 witness: a buffer of the exact size has been converted; the red of
\* the second pixel follows the blue of the first.
C8_Witness ==
    /\ probe.fn = "encode"
    /\ probe.done
    /\ Len(probe.arg) = BufferLen
    /\ probe.res[Channels] = Num(probe.arg[Channels])
    /\ probe.res[Channels + 1] = Num(probe.arg[Stride + 1])
    /\ probe.arg[Stride] # probe.arg[Stride + 1]

\* C9 (Spec), the claim as stated: a prediction on display was computed by
\* a request for the image that is selected.
C9_PredictionOfSelectedImage ==
    prediction # NullPrediction
        => \E i \in 1..Len(reqs) :
              /\ reqs[i].outcome = "ok"
              /\ reqs[i].image = selectedImage
              /\ ResultData(reqs[i].scores) = prediction

\* C10 (Spec), the claim as stated: once every request and every
\* addToHistory call has completed (fewer than 20 in all), the stored list
\* holds one entry for every successful diagnosis.
C10_NoHistoryUpdateLost ==
    (/\ \A i \in 1..Len(reqs) : reqs[i].pc = "done"
     /\ \A j \in 1..Len(hcalls) : hcalls[j].pc = "done"
     /\ Len(hcalls) < HistoryCap)
        => /\ Len(storage) = Len(hcalls)
           /\ \A j \in 1..Len(hcalls) :
                 \E k \in 1..Len(storage) : storage[k] = hcalls[j].newEntry

=============================================================================
